---- MODULE Spec2Model ----
(***************************************************************************)
(* firebase-realtime-database: the REST transport with its bearer-token    *)
(* cache (FirebaseSDK), and the schema-checked accessors built on it       *)
(* (FirebaseCollection, FirebaseTable).                                    *)
(*                                                                         *)
(* Every accessor method is an async function.  It runs synchronously up   *)
(* to its first suspension, is resumed when the auth provider or the       *)
(* store answers, and runs on to the next suspension.  One action models   *)
(* one such run.  The store executes a request atomically at the moment    *)
(* it answers it.                                                          *)
(***************************************************************************)
EXTENDS Integers, FiniteSets, Sequences, TLC

VARIABLES
    node,      \* the store: the JSON value under the collection's path
    rows,      \* the store: the rows under the table's path, by key
    nextId,    \* the store: the next key a POST generates
    storage,   \* FirebaseSDK.storage: { token, expire }
    now,       \* Date.now()
    ticks,     \* how often the clock has advanced
    budget,    \* how many more requests the store or the auth provider will refuse
    pc,        \* per caller: "idle", "auth" (awaiting the provider), "fetch" (awaiting the store)
    op,        \* per caller: the accessor method running, with its arguments
    req,       \* per caller: the request in flight
    legacy,    \* per caller: the value read, as handed to the callback
    tnow,      \* per caller: getAccessToken's local `now`
    setArg,    \* the argument of the set() whose write the node last took, if any
    live,      \* rows created and not deleted since: key -> document written
    created,   \* the row ids create has returned
    pure,      \* no transition has written to the table
    ret        \* what an accessor method has just returned or thrown

vars == <<node, rows, nextId, storage, now, ticks, budget, pc, op, req, legacy,
          tnow, setArg, live, created, pure, ret>>

store == <<node, rows, nextId>>
clock == <<now, ticks>>
ghost == <<setArg, live, created, pure>>

(***************************************************************************)
(* Bounds.                                                                 *)
(***************************************************************************)
MaxIds == 2
MaxFails == 1
MaxTicks == 3
MaxLen == 2

Procs == {1, 2}
Fields == {"a", "b", "c"}
Vals == {1, 2}

(***************************************************************************)
(* Program constants.                                                      *)
(***************************************************************************)
TTL == 3300000
DefaultB == 1
UndefId == 0
ErrorKey == -1

(***************************************************************************)
(* JSON values.  A document is a record over Fields; 0 stands for a field  *)
(* that is not there, so the record with no field at all is `null`.        *)
(***************************************************************************)
Doc == [Fields -> {0} \cup Vals]
Null == [f \in Fields |-> 0]
Ids == 1..MaxIds
Keys == {ErrorKey, UndefId} \cup Ids

\* What response.json() yields: the stored value, or the error body of a
\* refused request, which is an object as well.
Json(v) == [err |-> FALSE, val |-> v]
ErrorBody == [err |-> TRUE, val |-> Null]
Truthy(j) == j.err \/ j.val # Null

\* JSON.stringify of an object: its defined fields, as key/value pairs.
Stringify(v) == {<<f, v[f]>> : f \in {g \in Fields : v[g] # 0}}
\* The store's reading of a request body.
ParseBody(s) == [f \in Fields |-> IF \E e \in s : e[1] = f
                                  THEN (CHOOSE e \in s : e[1] = f)[2] ELSE 0]

(***************************************************************************)
(* The schema of the accessors: a is required, b has the default          *)
(* DefaultB, c is optional.                                                *)
(***************************************************************************)
SchemaAccepts(v) == v.a # 0
SchemaParse(v) == [v EXCEPT !.b = IF v.b = 0 THEN DefaultB ELSE v.b]
\* The values schema.parse can have returned.
Conforms(v) == v.a # 0 /\ v.b # 0

\* What callers pass to set and create: a document that lacks the required
\* field, one that leaves the default to the schema, and a complete one.
Inputs == {[a |-> 0, b |-> 1, c |-> 0], [a |-> 1, b |-> 0, c |-> 0],
           [a |-> 1, b |-> 2, c |-> 0]}
\* set is also given a document with the optional field.
SetInputs == Inputs \cup {[a |-> 1, b |-> 0, c |-> 1]}

\* The callbacks callers pass to update: the README's ( keep the previous
\* document and change one field, or start a new one ), one that returns a
\* single field, and one that returns a whole document.
Callbacks == {"spread", "field", "whole"}
Callback(cb, lg) ==
    CASE cb = "spread" -> IF Truthy(lg) THEN [lg.val EXCEPT !.b = 2]
                                        ELSE [a |-> 1, b |-> 2, c |-> 0]
      [] cb = "field"  -> [a |-> 0, b |-> 2, c |-> 0]
      [] cb = "whole"  -> [a |-> 2, b |-> 1, c |-> 0]

(***************************************************************************)
(* The store.                                                              *)
(***************************************************************************)
\* PATCH: the fields given replace the stored ones, the others stay.
Merged_Replace(old, new) == new
Merged(old, new) == [f \in Fields |-> IF new[f] # 0 THEN new[f] ELSE old[f]]

(***************************************************************************)
(* FirebaseSDK.getAccessToken.  A token is known by the time at which the  *)
(* provider was asked for it.                                              *)
(***************************************************************************)
NoToken == [t0 |-> -1]
Token_Blank(t) == NoToken
Token(t) == [t0 |-> t]

NeedsRefresh_NoExpiry(st, t) == st.token = NoToken
NeedsRefresh(st, t) == st.token = NoToken \/ t > st.expire

ExpireOf_Completion(started, finished) == finished + TTL
ExpireOf(started, finished) == started + TTL

(***************************************************************************)
(* Bookkeeping shared by the actions.                                      *)
(***************************************************************************)
\* A value of a query parameter: a string (its characters), a number, a
\* boolean, or no value when the key is not in the query object.
DQ == "\""
BS == "\\"
Chars == {"x", DQ, BS}
Absent == [t |-> "absent", s |-> <<>>, n |-> 0]
Str(s) == [t |-> "string", s |-> s, n |-> 0]
Num(n) == [t |-> "number", s |-> <<>>, n |-> n]
Bool(n) == [t |-> "boolean", s |-> <<>>, n |-> n]
QueryKeys == {"orderBy", "equalTo"}
NoQuery == [k \in QueryKeys |-> Absent]

NoOp == [name |-> "", id |-> 0, f |-> "", v |-> 0, arg |-> Null, cb |-> "",
         query |-> NoQuery]
NoReq == [m |-> "", at |-> "", id |-> 0, body |-> {}]
NoRet == [p |-> 0, name |-> "", kind |-> "none", val |-> Json(Null),
          list |-> {}, id |-> 0]

Request(m, at, id, v) == [m |-> m, at |-> at, id |-> id, body |-> Stringify(v)]

\* A transport method is entered: getAccessToken runs up to its await, or
\* returns the cached token at once.
Issue(p, o, r, lg) ==
    /\ op' = [op EXCEPT ![p] = o]
    /\ req' = [req EXCEPT ![p] = r]
    /\ legacy' = [legacy EXCEPT ![p] = lg]
    /\ IF NeedsRefresh(storage, now)
       THEN /\ pc' = [pc EXCEPT ![p] = "auth"]
            /\ tnow' = [tnow EXCEPT ![p] = now]
            /\ ret' = NoRet
       ELSE /\ pc' = [pc EXCEPT ![p] = "fetch"]
            /\ ret' = [NoRet EXCEPT !.kind = "cached"]
            /\ UNCHANGED tnow
    /\ UNCHANGED storage

\* The method returns (or throws): the caller is idle again.
Return(p, r) ==
    /\ ret' = [r EXCEPT !.p = p, !.name = op[p].name]
    /\ pc' = [pc EXCEPT ![p] = "idle"]
    /\ op' = [op EXCEPT ![p] = NoOp]
    /\ req' = [req EXCEPT ![p] = NoReq]
    /\ legacy' = [legacy EXCEPT ![p] = Json(Null)]
    /\ tnow' = [tnow EXCEPT ![p] = -1]
    /\ UNCHANGED storage

\* The store answers the request of p: served, or refused.
Answered(p, ok) ==
    /\ pc[p] = "fetch"
    /\ IF ok THEN budget' = budget ELSE budget > 0 /\ budget' = budget - 1

Init ==
    /\ node = Null
    /\ rows = [k \in Keys |-> Null]
    /\ nextId = 1
    /\ storage = [token |-> NoToken, expire |-> 0]
    /\ now = 0
    /\ ticks = 0
    /\ budget = 0
    /\ pc = [p \in Procs |-> "idle"]
    /\ op = [p \in Procs |-> NoOp]
    /\ req = [p \in Procs |-> NoReq]
    /\ legacy = [p \in Procs |-> Json(Null)]
    /\ tnow = [p \in Procs |-> -1]
    /\ setArg = Null
    /\ live = [k \in Ids |-> Null]
    /\ created = {}
    /\ pure = TRUE
    /\ ret = NoRet

\* The same, with requests that the store or the auth provider refuses.
InitRefusing ==
    /\ node = Null
    /\ rows = [k \in Keys |-> Null]
    /\ nextId = 1
    /\ storage = [token |-> NoToken, expire |-> 0]
    /\ now = 0
    /\ ticks = 0
    /\ budget = MaxFails
    /\ pc = [p \in Procs |-> "idle"]
    /\ op = [p \in Procs |-> NoOp]
    /\ req = [p \in Procs |-> NoReq]
    /\ legacy = [p \in Procs |-> Json(Null)]
    /\ tnow = [p \in Procs |-> -1]
    /\ setArg = Null
    /\ live = [k \in Ids |-> Null]
    /\ created = {}
    /\ pure = TRUE
    /\ ret = NoRet

\* The same, with a single caller.
InitAlone ==
    /\ node = Null
    /\ rows = [k \in Keys |-> Null]
    /\ nextId = 1
    /\ storage = [token |-> NoToken, expire |-> 0]
    /\ now = 0
    /\ ticks = 0
    /\ budget = MaxFails
    /\ pc = [p \in Procs |-> IF p = 1 THEN "idle" ELSE "off"]
    /\ op = [p \in Procs |-> NoOp]
    /\ req = [p \in Procs |-> NoReq]
    /\ legacy = [p \in Procs |-> Json(Null)]
    /\ tnow = [p \in Procs |-> -1]
    /\ setArg = Null
    /\ live = [k \in Ids |-> Null]
    /\ created = {}
    /\ pure = TRUE
    /\ ret = NoRet

(***************************************************************************)
(* The clock and the auth provider.                                        *)
(***************************************************************************)
Tick ==
    /\ ticks < MaxTicks
    /\ \E d \in {1, TTL} : now' = now + d
    /\ ticks' = ticks + 1
    /\ ret' = NoRet
    /\ UNCHANGED <<store, storage, budget, pc, op, req, legacy, tnow, ghost>>

\* getAccessToken resumes with the provider's token.
AuthReturn(p) ==
    /\ pc[p] = "auth"
    /\ storage' = [token |-> Token(tnow[p]), expire |-> ExpireOf(tnow[p], now)]
    /\ pc' = [pc EXCEPT ![p] = "fetch"]
    /\ tnow' = [tnow EXCEPT ![p] = -1]
    /\ ret' = NoRet
    /\ UNCHANGED <<store, clock, budget, op, req, legacy, ghost>>

\* The provider budget: the method rejects with its error.
AuthFail(p) ==
    /\ pc[p] = "auth"
    /\ budget > 0 /\ budget' = budget - 1
    /\ Return(p, [NoRet EXCEPT !.kind = "AuthenticationError"])
    /\ UNCHANGED <<store, clock, ghost>>

(***************************************************************************)
(* FirebaseCollection                                                      *)
(***************************************************************************)
\* get(): database.get( name )
CollectionGet(p) ==
    /\ pc[p] = "idle"
    /\ Issue(p, [NoOp EXCEPT !.name = "get"], Request("GET", "node", 0, Null),
             Json(Null))
    /\ UNCHANGED <<store, clock, budget, ghost>>

GetResult(ok, stored) == IF ok THEN Json(stored) ELSE ErrorBody

CollectionGetDone(p) ==
    \E ok \in BOOLEAN :
        /\ Answered(p, ok)
        /\ op[p].name = "get"
        /\ Return(p, [NoRet EXCEPT !.kind = "value", !.val = GetResult(ok, node)])
        /\ UNCHANGED <<store, clock, ghost>>

\* set( value ): schema.parse( value ), then database.set( name, data )
SetRequest_Patch(v) == Request("PATCH", "node", 0, SchemaParse(v))
SetRequest(v) == Request("PUT", "node", 0, SchemaParse(v))

SetGate_Open(v) == TRUE
SetGate(v) == SchemaAccepts(v)

CollectionSet(p) ==
    \E v \in SetInputs :
        /\ pc[p] = "idle"
        /\ IF SetGate(v)
           THEN /\ Issue(p, [NoOp EXCEPT !.name = "set", !.arg = v],
                         SetRequest(v), Json(Null))
           ELSE /\ ret' = [NoRet EXCEPT !.p = p, !.name = "set",
                                        !.kind = "ValidationError"]
                /\ UNCHANGED <<pc, op, req, legacy, tnow, storage>>
        /\ UNCHANGED <<store, clock, budget, ghost>>

\* The store takes a write: a PUT replaces the value, a PATCH merges into it.
Written(m, old, new) == IF m = "PUT" THEN new ELSE Merged(old, new)

CollectionSetDone(p) ==
    \E ok \in BOOLEAN :
        /\ Answered(p, ok)
        /\ op[p].name = "set"
        /\ node' = IF ok THEN Written(req[p].m, node, ParseBody(req[p].body))
                         ELSE node
        /\ setArg' = IF ok THEN op[p].arg ELSE setArg
        /\ Return(p, [NoRet EXCEPT !.kind = "void"])
        /\ UNCHANGED <<rows, nextId, clock, live, created, pure>>

\* delete(): database.delete( name )
CollectionDelete(p) ==
    /\ pc[p] = "idle"
    /\ Issue(p, [NoOp EXCEPT !.name = "delete"],
             Request("DELETE", "node", 0, Null), Json(Null))
    /\ UNCHANGED <<store, clock, budget, ghost>>

CollectionDeleteDone(p) ==
    \E ok \in BOOLEAN :
        /\ Answered(p, ok)
        /\ op[p].name = "delete"
        /\ node' = IF ok THEN Null ELSE node
        /\ setArg' = IF ok THEN Null ELSE setArg
        /\ Return(p, [NoRet EXCEPT !.kind = "void"])
        /\ UNCHANGED <<rows, nextId, clock, live, created, pure>>

\* update( FunctionCallback ): get(), the callback, then update or set
UpdateRequest_AlwaysPut(lg, u) == Request("PUT", "node", 0, u)
UpdateRequest(lg, u) ==
    IF Truthy(lg) THEN Request("PATCH", "node", 0, u)
                  ELSE Request("PUT", "node", 0, u)

CollectionUpdate(p) ==
    \E cb \in Callbacks :
        /\ pc[p] = "idle"
        /\ Issue(p, [NoOp EXCEPT !.name = "update", !.cb = cb],
                 Request("GET", "node", 0, Null), Json(Null))
        /\ UNCHANGED <<store, clock, budget, ghost>>

CollectionUpdateRead(p) ==
    \E ok \in BOOLEAN :
        /\ Answered(p, ok)
        /\ op[p].name = "update" /\ req[p].m = "GET"
        /\ LET lg == GetResult(ok, node)
           IN  Issue(p, op[p], UpdateRequest(lg, Callback(op[p].cb, lg)), lg)
        /\ UNCHANGED <<store, clock, ghost>>

CollectionUpdateDone(p) ==
    \E ok \in BOOLEAN :
        /\ Answered(p, ok)
        /\ op[p].name = "update" /\ req[p].m \in {"PUT", "PATCH"}
        /\ node' = IF ok THEN Written(req[p].m, node, ParseBody(req[p].body))
                         ELSE node
        /\ setArg' = IF ok THEN Null ELSE setArg
        /\ Return(p, [NoRet EXCEPT !.kind = "void", !.val = legacy[p]])
        /\ UNCHANGED <<rows, nextId, clock, live, created, pure>>

CollectionNext ==
    \E p \in Procs :
        \/ AuthReturn(p)
        \/ CollectionGet(p)
        \/ CollectionGetDone(p)
        \/ CollectionSet(p)
        \/ CollectionSetDone(p)
        \/ CollectionDelete(p)
        \/ CollectionDeleteDone(p)
        \/ CollectionUpdate(p)
        \/ CollectionUpdateRead(p)
        \/ CollectionUpdateDone(p)

SpecCollection == Init /\ [][CollectionNext]_vars

(***************************************************************************)
(* FirebaseTable                                                           *)
(***************************************************************************)
QueryFields == {"b"}
Updaters == {"decline", "spread", "field", "retag"}

\* What the store answers a read of the table's path with: null when there
\* is no row, the mapping from key to row otherwise, or an error body.
NoRows == [k \in Keys |-> Null]
ErrorSnapshot == [err |-> TRUE, null |-> FALSE, m |-> NoRows]
TableSnapshot(ok) ==
    IF ok THEN [err |-> FALSE, null |-> rows = NoRows, m |-> rows]
          ELSE ErrorSnapshot

\* ?orderBy="f"&equalTo=v : the rows whose field f is v.  When there is
\* none the store answers null or the empty mapping.
Matches(f, v) == [k \in Keys |-> IF rows[k][f] = v THEN rows[k] ELSE Null]
QuerySnapshot(ok, f, v, asNull) ==
    IF ~ok THEN ErrorSnapshot
    ELSE [err |-> FALSE, null |-> Matches(f, v) = NoRows /\ asNull,
          m |-> Matches(f, v)]

\* Object.keys( snapshot ) and snapshot[ key ]
SnapKeys(s) == IF s.err THEN {ErrorKey} ELSE {k \in Keys : s.m[k] # Null}
SnapAt(s, k) == s.m[k]
SnapTruthy(s) == ~s.null
\* { ...row, _id }
WithId(d, k) == [f \in Fields \cup {"_id"} |-> IF f = "_id" THEN k ELSE d[f]]
\* const { _id, ...data } = row
Rest(row) == [f \in Fields |-> row[f]]
\* Object.keys( snapshot )[0]: the store lists keys in ascending order
FirstKey(s) ==
    IF SnapKeys(s) = {} THEN UndefId
    ELSE CHOOSE k \in SnapKeys(s) : \A j \in SnapKeys(s) : k <= j

FindAllResult_FirstOnly(s) ==
    IF SnapTruthy(s) THEN {WithId(SnapAt(s, FirstKey(s)), FirstKey(s))} ELSE {}
FindAllResult(s) ==
    IF SnapTruthy(s) THEN {WithId(SnapAt(s, k), k) : k \in SnapKeys(s)} ELSE {}

NotFound == [found |-> FALSE, row |-> WithId(Null, UndefId)]
FindByChildResult(s) ==
    IF SnapTruthy(s)
    THEN [found |-> TRUE, row |-> WithId(SnapAt(s, FirstKey(s)), FirstKey(s))]
    ELSE NotFound

\* The updaters callers pass to the transitions; each yields false, or a
\* document, for transitionByChild with its _id.
OtherId(k) == IF k = 1 THEN 2 ELSE 1
Updater(cb, row) ==
    CASE cb = "decline" -> [truthy |-> FALSE, id |-> UndefId, data |-> Null]
      [] cb = "spread"  -> [truthy |-> TRUE, id |-> row._id,
                            data |-> [Rest(row) EXCEPT !.b = 2]]
      [] cb = "field"   -> [truthy |-> TRUE, id |-> row._id,
                            data |-> [Null EXCEPT !.b = 2]]
      [] cb = "retag"   -> [truthy |-> TRUE, id |-> OtherId(row._id),
                            data |-> [Rest(row) EXCEPT !.b = 2]]

\* create( value ): schema.parse( value ), then database.push( name, data )
CreateGate(v) == SchemaAccepts(v)
CreateRequest(v) == Request("POST", "table", 0, SchemaParse(v))

\* push: const { name } = await res.json(); return name
PushResult_Fixed(ok, key) == 1
PushResult(ok, key) == IF ok THEN key ELSE UndefId

TableCreate(p) ==
    \E v \in Inputs :
        /\ pc[p] = "idle"
        /\ IF CreateGate(v)
           THEN /\ Issue(p, [NoOp EXCEPT !.name = "create", !.arg = v],
                         CreateRequest(v), Json(Null))
           ELSE /\ ret' = [NoRet EXCEPT !.p = p, !.name = "create",
                                        !.kind = "ValidationError"]
                /\ UNCHANGED <<pc, op, req, legacy, tnow, storage>>
        /\ UNCHANGED <<store, clock, budget, ghost>>

TableCreateDone(p) ==
    \E ok \in BOOLEAN :
        /\ Answered(p, ok)
        /\ op[p].name = "create"
        /\ IF ok
           THEN /\ nextId <= MaxIds
                /\ rows' = [rows EXCEPT ![nextId] = ParseBody(req[p].body)]
                /\ nextId' = nextId + 1
                /\ created' = created \cup {PushResult(ok, nextId)}
                /\ live' = IF pure
                           THEN [live EXCEPT ![PushResult(ok, nextId)] =
                                                 SchemaParse(op[p].arg)]
                           ELSE live
           ELSE UNCHANGED <<rows, nextId, created, live>>
        /\ Return(p, [NoRet EXCEPT !.kind = "id", !.id = PushResult(ok, nextId)])
        /\ UNCHANGED <<node, clock, setArg, pure>>

\* findAll(): database.get( name ), one entry per key
TableFindAll(p) ==
    /\ pc[p] = "idle"
    /\ Issue(p, [NoOp EXCEPT !.name = "findAll"],
             Request("GET", "table", 0, Null), Json(Null))
    /\ UNCHANGED <<store, clock, budget, ghost>>

TableFindAllDone(p) ==
    \E ok \in BOOLEAN :
        /\ Answered(p, ok)
        /\ op[p].name = "findAll"
        /\ Return(p, [NoRet EXCEPT !.kind = "list",
                                   !.list = FindAllResult(TableSnapshot(ok))])
        /\ UNCHANGED <<store, clock, ghost>>

\* findById( id ): database.get( name/id )
TableFindById(p) ==
    \E id \in Ids :
        /\ pc[p] = "idle"
        /\ Issue(p, [NoOp EXCEPT !.name = "findById", !.id = id],
                 Request("GET", "row", id, Null), Json(Null))
        /\ UNCHANGED <<store, clock, budget, ghost>>

TableFindByIdDone(p) ==
    \E ok \in BOOLEAN :
        /\ Answered(p, ok)
        /\ op[p].name = "findById"
        /\ LET response == GetResult(ok, rows[req[p].id])
           IN  Return(p, [NoRet EXCEPT
                   !.kind = IF Truthy(response) THEN "value" ELSE "absent",
                   !.val = response, !.id = req[p].id])
        /\ UNCHANGED <<store, clock, ghost>>

\* findByChild( where, value ): database.orderBy( name, ... ), the first row
TableFindByChild(p) ==
    \E f \in QueryFields, v \in Vals :
        /\ pc[p] = "idle"
        /\ Issue(p, [NoOp EXCEPT !.name = "findByChild", !.f = f, !.v = v],
                 Request("GET", "query", 0, Null), Json(Null))
        /\ UNCHANGED <<store, clock, budget, ghost>>

TableFindByChildDone(p) ==
    \E ok \in BOOLEAN, asNull \in BOOLEAN :
        /\ Answered(p, ok)
        /\ op[p].name = "findByChild"
        /\ LET r == FindByChildResult(QuerySnapshot(ok, op[p].f, op[p].v, asNull))
           IN  Return(p, [NoRet EXCEPT
                   !.kind = IF r.found THEN "row" ELSE "absent",
                   !.val = Json(Rest(r.row)),
                   !.id = r.row._id])
        /\ UNCHANGED <<store, clock, ghost>>

\* filterByChild( where, value ): the same read, every row
TableFilterByChild(p) ==
    \E f \in QueryFields, v \in Vals :
        /\ pc[p] = "idle"
        /\ Issue(p, [NoOp EXCEPT !.name = "filterByChild", !.f = f, !.v = v],
                 Request("GET", "query", 0, Null), Json(Null))
        /\ UNCHANGED <<store, clock, budget, ghost>>

TableFilterByChildDone(p) ==
    \E ok \in BOOLEAN, asNull \in BOOLEAN :
        /\ Answered(p, ok)
        /\ op[p].name = "filterByChild"
        /\ Return(p, [NoRet EXCEPT !.kind = "list",
               !.list = FindAllResult(QuerySnapshot(ok, op[p].f, op[p].v, asNull))])
        /\ UNCHANGED <<store, clock, ghost>>

\* The store merges the body of a PATCH into the row.
RowWrite(p, ok) ==
    /\ rows' = IF ok THEN [rows EXCEPT ![req[p].id] =
                              Merged(@, ParseBody(req[p].body))]
                     ELSE rows
    /\ pure' = (pure /\ ~ok)
    /\ live' = IF ok THEN [k \in Ids |-> Null] ELSE live
    /\ UNCHANGED <<node, nextId, setArg, created>>

\* transitionByChild( key, value, FunctionUpdate )
TableTransitionByChild(p) ==
    \E f \in QueryFields, v \in Vals, cb \in Updaters \ {"field"} :
        /\ pc[p] = "idle"
        /\ Issue(p, [NoOp EXCEPT !.name = "transitionByChild", !.f = f,
                                 !.v = v, !.cb = cb],
                 Request("GET", "query", 0, Null), Json(Null))
        /\ UNCHANGED <<store, clock, budget, ghost>>

TableTransitionByChildRead(p) ==
    \E ok \in BOOLEAN, asNull \in BOOLEAN :
        /\ Answered(p, ok)
        /\ op[p].name = "transitionByChild" /\ req[p].m = "GET"
        /\ LET lg == FindByChildResult(QuerySnapshot(ok, op[p].f, op[p].v, asNull))
               update == Updater(op[p].cb, lg.row)
           IN  IF lg.found /\ update.truthy
               THEN /\ Issue(p, [NoOp EXCEPT !.name = op[p].name,
                                              !.id = lg.row._id],
                             Request("PATCH", "row", update.id, update.data),
                             Json(Null))
               ELSE Return(p, [NoRet EXCEPT !.kind = "void"])
        /\ UNCHANGED <<store, clock, ghost>>

TableTransitionByChildDone(p) ==
    \E ok \in BOOLEAN :
        /\ Answered(p, ok)
        /\ op[p].name = "transitionByChild" /\ req[p].m = "PATCH"
        /\ RowWrite(p, ok)
        /\ Return(p, [NoRet EXCEPT !.kind = "void"])
        /\ UNCHANGED clock

\* transitionById( id, FunctionUpdate )
TableTransitionById(p) ==
    \E id \in Ids, cb \in Updaters \ {"retag"} :
        /\ pc[p] = "idle"
        /\ Issue(p, [NoOp EXCEPT !.name = "transitionById", !.id = id, !.cb = cb],
                 Request("GET", "row", id, Null), Json(Null))
        /\ UNCHANGED <<store, clock, budget, ghost>>

TableTransitionByIdRead(p) ==
    \E ok \in BOOLEAN :
        /\ Answered(p, ok)
        /\ op[p].name = "transitionById" /\ req[p].m = "GET"
        /\ LET lg == GetResult(ok, rows[req[p].id])
               update == Updater(op[p].cb, WithId(lg.val, op[p].id))
           IN  IF Truthy(lg) /\ update.truthy
               THEN /\ Issue(p, [NoOp EXCEPT !.name = op[p].name,
                                              !.id = op[p].id],
                             Request("PATCH", "row", op[p].id, update.data),
                             Json(Null))
               ELSE Return(p, [NoRet EXCEPT !.kind = "void"])
        /\ UNCHANGED <<store, clock, ghost>>

TableTransitionByIdDone(p) ==
    \E ok \in BOOLEAN :
        /\ Answered(p, ok)
        /\ op[p].name = "transitionById" /\ req[p].m = "PATCH"
        /\ RowWrite(p, ok)
        /\ Return(p, [NoRet EXCEPT !.kind = "void"])
        /\ UNCHANGED clock

\* deleteById( id ): database.delete( name/id )
TableDeleteById(p) ==
    \E id \in Ids :
        /\ pc[p] = "idle"
        /\ Issue(p, [NoOp EXCEPT !.name = "deleteById", !.id = id],
                 Request("DELETE", "row", id, Null), Json(Null))
        /\ UNCHANGED <<store, clock, budget, ghost>>

TableDeleteByIdDone(p) ==
    \E ok \in BOOLEAN :
        /\ Answered(p, ok)
        /\ op[p].name = "deleteById"
        /\ rows' = IF ok THEN [rows EXCEPT ![req[p].id] = Null] ELSE rows
        /\ live' = IF ok /\ pure THEN [live EXCEPT ![req[p].id] = Null] ELSE live
        /\ Return(p, [NoRet EXCEPT !.kind = "void"])
        /\ UNCHANGED <<node, nextId, clock, setArg, created, pure>>

\* Rows are created, deleted and read.
TableNext ==
    \E p \in Procs :
        \/ AuthReturn(p)
        \/ TableCreate(p)
        \/ TableCreateDone(p)
        \/ TableFindAll(p)
        \/ TableFindAllDone(p)
        \/ TableFindById(p)
        \/ TableFindByIdDone(p)
        \/ TableFindByChild(p)
        \/ TableFindByChildDone(p)
        \/ TableFilterByChild(p)
        \/ TableFilterByChildDone(p)
        \/ TableDeleteById(p)
        \/ TableDeleteByIdDone(p)

\* Rows are created, deleted and taken through transitions.
TransitionNext ==
    \E p \in Procs :
        \/ AuthReturn(p)
        \/ TableCreate(p)
        \/ TableCreateDone(p)
        \/ TableTransitionByChild(p)
        \/ TableTransitionByChildRead(p)
        \/ TableTransitionByChildDone(p)
        \/ TableTransitionById(p)
        \/ TableTransitionByIdRead(p)
        \/ TableTransitionByIdDone(p)
        \/ TableDeleteById(p)
        \/ TableDeleteByIdDone(p)

SpecTable == Init /\ [][TableNext]_vars

SpecTransition == Init /\ [][TransitionNext]_vars

TokenNext ==
    \/ Tick
    \/ \E p \in Procs :
        \/ AuthReturn(p)
        \/ AuthFail(p)
        \/ CollectionGet(p)
        \/ CollectionGetDone(p)

SpecToken == InitRefusing /\ [][TokenNext]_vars

(***************************************************************************)
(* FirebaseSDK.orderBy: the query string.                                  *)
(***************************************************************************)
Strings == UNION {[1..n -> Chars] : n \in 0..MaxLen}
QueryValues == {Str(s) : s \in Strings} \cup {Num(n) : n \in Vals}
                   \cup {Bool(n) : n \in {0, 1}}
\* The query objects: orderBy names a child, or is left out; equalTo is any
\* value, or is left out.
Queries == {[orderBy |-> o, equalTo |-> e] :
                o \in {Absent, Str(<<"x">>)}, e \in {Absent} \cup QueryValues}

\* JSON.stringify( value ): a string literal escapes the quote and the
\* backslash.
RECURSIVE Escaped(_)
Escaped(s) ==
    IF s = <<>> THEN <<>>
    ELSE (IF Head(s) \in {DQ, BS} THEN <<BS, Head(s)>> ELSE <<Head(s)>>)
            \o Escaped(Tail(s))
JsonStringify(v) ==
    CASE v.t = "string"  -> <<DQ>> \o Escaped(v.s) \o <<DQ>>
      [] v.t = "number"  -> <<ToString(v.n)>>
      [] v.t = "boolean" -> IF v.n = 1 THEN <<"true">> ELSE <<"false">>

\* typeof value === "string" ? `"${ value }"` : JSON.stringify( value )
ParamValue(v) == IF v.t = "string" THEN <<DQ>> \o v.s \o <<DQ>>
                                   ELSE JsonStringify(v)

\* params.toString() percent-encodes the value; the store decodes it.
RECURSIVE PercentEncode(_)
PercentEncode(s) ==
    IF s = <<>> THEN <<>>
    ELSE <<CASE Head(s) = DQ -> "%22"
             [] Head(s) = BS -> "%5C"
             [] OTHER -> Head(s)>> \o PercentEncode(Tail(s))
RECURSIVE PercentDecode(_)
PercentDecode(s) ==
    IF s = <<>> THEN <<>>
    ELSE <<CASE Head(s) = "%22" -> DQ
             [] Head(s) = "%5C" -> BS
             [] OTHER -> Head(s)>> \o PercentDecode(Tail(s))

\* for ( const [ key, value ] of Object.entries( query ) ) params.set( ... )
Params(query) ==
    {<<k, PercentEncode(ParamValue(query[k]))>> :
        k \in {j \in QueryKeys : query[j] # Absent}}

SdkOrderBy(p) ==
    \E query \in Queries :
        /\ pc[p] = "idle"
        /\ Issue(p, [NoOp EXCEPT !.name = "orderBy", !.query = query],
                 [m |-> "GET", at |-> "query", id |-> 0, body |-> Params(query)],
                 Json(Null))
        /\ UNCHANGED <<store, clock, budget, ghost>>

SdkOrderByDone(p) ==
    \E ok \in BOOLEAN :
        /\ Answered(p, ok)
        /\ op[p].name = "orderBy"
        /\ Return(p, [NoRet EXCEPT !.kind = "value"])
        /\ UNCHANGED <<store, clock, ghost>>

QueryNext ==
    \E p \in Procs :
        \/ AuthReturn(p)
        \/ AuthFail(p)
        \/ SdkOrderBy(p)
        \/ SdkOrderByDone(p)

SpecQuery == InitAlone /\ [][QueryNext]_vars

\* One caller whose transport calls follow one another.
SpecSequential == InitAlone /\ [][TokenNext]_vars

\* A single caller, and a store and a provider that may refuse.
RefusingNext ==
    \/ \E p \in Procs : AuthFail(p)
    \/ CollectionNext
    \/ TableNext

SpecRefusing == InitAlone /\ [][RefusingNext]_vars

\* A document has been set, a row created, and the token is cached: the
\* state after set( { a: 1, b: 2 } ) and create( { a: 1 } ).
InitStored ==
    /\ node = [a |-> 1, b |-> 2, c |-> 0]
    /\ rows = [k \in Keys |-> IF k = 1 THEN [a |-> 1, b |-> DefaultB, c |-> 0]
                                       ELSE Null]
    /\ nextId = 2
    /\ storage = [token |-> Token(0), expire |-> ExpireOf(0, 0)]
    /\ now = 0
    /\ ticks = 0
    /\ budget = 0
    /\ pc = [p \in Procs |-> "idle"]
    /\ op = [p \in Procs |-> NoOp]
    /\ req = [p \in Procs |-> NoReq]
    /\ legacy = [p \in Procs |-> Json(Null)]
    /\ tnow = [p \in Procs |-> -1]
    /\ setArg = [a |-> 1, b |-> 2, c |-> 0]
    /\ live = [k \in Ids |-> IF k = 1 THEN [a |-> 1, b |-> DefaultB, c |-> 0]
                                      ELSE Null]
    /\ created = {1}
    /\ pure = TRUE
    /\ ret = NoRet

\* Two callers write to the same node and to the same rows.
RaceNext ==
    \E p \in Procs :
        \/ CollectionSet(p)
        \/ CollectionSetDone(p)
        \/ CollectionUpdate(p)
        \/ CollectionUpdateRead(p)
        \/ CollectionUpdateDone(p)
        \/ TableTransitionByChild(p)
        \/ TableTransitionByChildRead(p)
        \/ TableTransitionByChildDone(p)
        \/ TableTransitionById(p)
        \/ TableTransitionByIdRead(p)
        \/ TableTransitionByIdDone(p)
        \/ TableDeleteById(p)
        \/ TableDeleteByIdDone(p)

SpecRace == InitStored /\ [][RaceNext]_vars

(***************************************************************************)
(* Properties.                                                             *)
(***************************************************************************)
Writes == {"PUT", "PATCH", "POST"}
\* Caller p is resumed by the store's answer in this step.
Resumed(p) == pc[p] = "fetch" /\ (req'[p] # req[p] \/ pc'[p] # pc[p])

\* C1: every value a set, update, create or transition hands to a PUT, PATCH
\* or POST of the transport is one that schema validation has returned.
C1_WritesValidated ==
    \A p \in Procs :
        req[p].m \in Writes => Conforms(ParseBody(req[p].body))

\* C2: set( value ) with a value the schema rejects ends in a validation
\* error; no request and no token fetch is started for it and the store is
\* left as it was.
C2_InvalidSetRejected ==
    /\ [](\A p \in Procs : op[p].name = "set" => SchemaAccepts(op[p].arg))
    /\ [][(ret'.kind = "ValidationError" /\ ret'.name = "set")
            => UNCHANGED <<store, storage, clock, budget, pc, op, req, legacy,
                           tnow, ghost>>]_vars

C2_Witness ==
    /\ ret.kind = "ValidationError" /\ ret.name = "set"
    /\ node # Null

\* C3: a get() that follows set( d ), no other write in between, returns d
\* as the schema parses it (defaults applied), whatever was stored before.
C3_SetThenGet ==
    (ret.name = "get" /\ ret.kind = "value" /\ setArg # Null)
        => ret.val = Json(SchemaParse(setArg))

C3_Witness ==
    /\ ret.name = "get" /\ ret.kind = "value"
    /\ setArg = [a |-> 1, b |-> 0, c |-> 0]
    /\ ret.val = Json([a |-> 1, b |-> DefaultB, c |-> 0])

\* C4: update( callback ), nobody writing in between: on an absent node the
\* callback gets absent and its result is PUT, so the node becomes that
\* result; on an existing node the callback gets the stored value and its
\* result is PATCHed, so the fields it returns change and the others stay.
C4_UpdateWrites ==
    [][\A p \in Procs :
        /\ (Resumed(p) /\ op[p].name = "update" /\ req[p].m = "GET")
            => /\ req'[p] = Request(IF node = Null THEN "PUT" ELSE "PATCH",
                                    "node", 0, Callback(op[p].cb, Json(node)))
               /\ node' = node
        /\ (Resumed(p) /\ op[p].name = "update" /\ req[p].m \in Writes
                       /\ node = legacy[p].val)
            => LET result == Callback(op[p].cb, legacy[p])
               IN  /\ pc'[p] = "idle" /\ ret'.kind = "void"
                   /\ IF legacy[p].val = Null
                      THEN req[p].m = "PUT" /\ node' = result
                      ELSE /\ req[p].m = "PATCH"
                           /\ \A f \in Fields :
                                node'[f] = IF result[f] # 0 THEN result[f]
                                           ELSE legacy[p].val[f]]_vars

C4_Witness ==
    /\ ret.name = "update" /\ ret.kind = "void"
    /\ ret.val = Json([a |-> 1, b |-> 1, c |-> 1])
    /\ node = [a |-> 1, b |-> 2, c |-> 1]

\* C5: a transition whose lookup finds no row, or whose updater yields
\* false, issues no write, leaves every row as it was and returns normally;
\* a PATCH is issued only when a row was found and the updater yielded a
\* document.
C5_NoRowNoWrite ==
    [][\A p \in Procs :
        (Resumed(p) /\ req[p].m = "GET"
                    /\ op[p].name \in {"transitionByChild", "transitionById"})
            => LET hit == IF op[p].name = "transitionById"
                          THEN rows[op[p].id] # Null
                          ELSE \E k \in Keys : rows[k][op[p].f] = op[p].v
               IN  /\ (~hit \/ op[p].cb = "decline")
                        => (pc'[p] = "idle" /\ ret'.kind = "void" /\ rows' = rows)
                   /\ req'[p].m = "PATCH" => (hit /\ op[p].cb # "decline")]_vars

\* C6: the row ids create returns are pairwise distinct, whatever is
\* created or deleted in between, and a create leaves the rows that are
\* there as they are.
C6_DistinctIds ==
    [][\A p \in Procs :
        (Resumed(p) /\ op[p].name = "create")
            => /\ ret'.kind = "id"
               /\ ret'.id \in Ids \ created
               /\ \A k \in Keys : rows[k] # Null => rows'[k] = rows[k]]_vars

C6_Witness ==
    /\ ret.name = "create" /\ ret.id = 2
    /\ created = {1, 2}
    /\ rows[1] = Null /\ rows[2] # Null

\* C7: after creates and deleteByIds alone, findAll returns one entry for
\* each row created and not deleted since: the document as the schema
\* parsed it, tagged with the id create returned.
C7_FindAll ==
    (ret.name = "findAll" /\ pure)
        => ret.list = {WithId(live[k], k) : k \in {i \in Ids : live[i] # Null}}

C7_Witness ==
    /\ ret.name = "findAll" /\ pure
    /\ created = {1, 2}
    /\ ret.list = {[a |-> 1, b |-> DefaultB, c |-> 0, _id |-> 2]}

\* C8: when no row has field = v, findByChild returns absent and
\* filterByChild the empty list, whether the store answers the filtered
\* read with null or with an empty mapping.
C8_NoMatchIsAbsent ==
    [][\A p \in Procs :
        (Resumed(p) /\ op[p].name \in {"findByChild", "filterByChild"}
                    /\ ~\E k \in Keys : rows[k][op[p].f] = op[p].v)
            => IF op[p].name = "findByChild"
               THEN ret'.kind = "absent"
               ELSE ret'.kind = "list" /\ ret'.list = {}]_vars

\* C9: a request the store refuses surfaces to the caller of the accessor
\* as an error: the method does not go on, nor return as if it had worked.
C9_RefusalIsError ==
    [][budget' < budget
        => ret'.kind \in {"TransportError", "AuthenticationError"}]_vars

\* C10: getAccessToken returns the cached token without asking the provider
\* only while the cached expiry has not passed, and the cached expiry is
\* never later than the start of the fetch of the cached token plus TTL.
C10_TokenFresh ==
    /\ ret.kind = "cached" => (storage.token # NoToken /\ now <= storage.expire)
    /\ storage.token # NoToken => storage.expire <= storage.token.t0 + TTL

C10_Witness ==
    /\ ret.kind = "cached"
    /\ \E q \in Procs : pc[q] = "auth"
    /\ storage.token.t0 > 0 /\ now > storage.token.t0

\* C11: transport calls that follow one another: a call entered with an
\* empty cache, or at a time after the cached expiry, asks the provider once
\* and the answer replaces the cached token, with the expiry set to the time
\* the call was entered plus TTL; a call entered with a token cached, at a
\* time not after its expiry, does not ask the provider and leaves the cache
\* as it is.
C11_SequentialCalls ==
    [][\A p \in Procs :
        /\ (pc[p] = "idle" /\ pc'[p] # "idle")
            => /\ pc'[p] = "auth"
                    <=> (storage.token = NoToken \/ now > storage.expire)
               /\ pc'[p] = "fetch" => ret'.kind = "cached"
               /\ storage' = storage
        /\ (pc[p] = "auth" /\ pc'[p] = "fetch")
            => /\ storage'.token = Token(tnow[p])
               /\ storage'.token # storage.token
               /\ storage'.expire = tnow[p] + TTL
        /\ (pc[p] = "auth" /\ pc'[p] = "idle") => storage' = storage
        /\ pc[p] = "fetch" => storage' = storage]_vars

C11_Witness ==
    /\ pc[2] = "off"
    /\ ret.kind = "cached"
    /\ storage.token.t0 > TTL
    /\ now = storage.expire

\* C12: update and the transitions read, compute and write without any
\* synchronisation: the write that lands is the one computed from the value
\* the operation read, whatever the node or the row holds by then, and the
\* operation returns normally.  So a write of another caller that landed
\* after the read loses the fields the operation writes.
C12_LostUpdate ==
    [][\A p \in Procs :
        /\ (Resumed(p) /\ op[p].name = "update" /\ req[p].m \in Writes)
            => LET result == Callback(op[p].cb, legacy[p])
               IN  /\ ret'.kind = "void" /\ ret'.p = p
                   /\ req[p].m = IF legacy[p].val = Null THEN "PUT" ELSE "PATCH"
                   /\ \A f \in Fields :
                        node'[f] = IF result[f] # 0 THEN result[f]
                                   ELSE IF req[p].m = "PUT" THEN 0 ELSE node[f]
        /\ (Resumed(p) /\ req[p].m = "GET"
                       /\ op[p].name \in {"transitionByChild", "transitionById"}
                       /\ req'[p].m = "PATCH")
            => \E row \in {WithId(rows[k], k) : k \in Keys} \cup {NotFound.row} :
                ParseBody(req'[p].body) = Updater(op[p].cb, row).data
        /\ (Resumed(p) /\ req[p].m = "PATCH"
                       /\ op[p].name \in {"transitionByChild", "transitionById"})
            => /\ ret'.kind = "void" /\ ret'.p = p
               /\ \A f \in Fields :
                    rows'[req[p].id][f] =
                        IF ParseBody(req[p].body)[f] # 0
                        THEN ParseBody(req[p].body)[f] ELSE rows[req[p].id][f]]_vars

\* update read { a: 1, b: 2 }; set( { a: 1, c: 1 } ) of the other caller
\* landed and made b the default; update's PATCH put b back to 2.  Before
\* that, transitionById read row 1, deleteById( 1 ) landed, and the PATCH
\* left a row that has b alone.
C12_Witness ==
    /\ ret.name = "update" /\ ret.kind = "void"
    /\ ret.val = Json([a |-> 1, b |-> 2, c |-> 0])
    /\ node = [a |-> 1, b |-> 2, c |-> 1]
    /\ rows[1] = [a |-> 0, b |-> 2, c |-> 0]

\* C13: a caller that finds the cache empty or expired asks the provider
\* even while another caller is asking already.  The cache changes only
\* when a refresh completes, token and expiry together, both from that one
\* refresh; and a caller goes on to its request only with a token of the
\* provider, the one it fetched itself when it refreshed.
C13_RefreshWholesale ==
    /\ [](storage.token # NoToken
            => storage.expire = storage.token.t0 + TTL)
    /\ [][\A p \in Procs :
            /\ (pc[p] = "idle" /\ pc'[p] # "idle"
                    /\ (storage.token = NoToken \/ now > storage.expire))
                => pc'[p] = "auth" /\ tnow'[p] = now
            /\ (pc[p] # "fetch" /\ pc'[p] = "fetch")
                => /\ storage'.token # NoToken
                   /\ pc[p] = "auth" => storage'.token = Token(tnow[p])
            /\ storage' # storage
                => \E q \in Procs :
                    /\ pc[q] = "auth" /\ pc'[q] = "fetch"
                    /\ storage' = [token |-> Token(tnow[q]),
                                   expire |-> tnow[q] + TTL]]_vars

\* Caller 2 found the token expired and is asking the provider; caller 1
\* came later, asked as well, and has its token already.
C13_Witness ==
    /\ pc[2] = "auth" /\ tnow[2] > TTL
    /\ pc[1] = "fetch"
    /\ storage.token.t0 > tnow[2]

\* C14: the query string orderBy sends has one parameter for every key of
\* the query object and none for a key that is not there; the value of a
\* parameter, as the store decodes it, is the JSON encoding of the value
\* given: for a string its JSON string literal, whatever characters the
\* string has.
C14_QueryIsJson ==
    \A p \in Procs :
        op[p].name = "orderBy"
            => /\ {e[1] : e \in req[p].body}
                    = {k \in QueryKeys : op[p].query[k] # Absent}
               /\ \A e \in req[p].body :
                    PercentDecode(e[2]) = JsonStringify(op[p].query[e[1]])

\* C15: the PATCH transitionByChild issues for a row its lookup found goes
\* to that row, whatever _id the document of the updater carries, its body has
\* the fields of the document and no _id, and when it lands no other row is
\* created or changed.
C15_MergeToFoundRow ==
    [][\A p \in Procs :
        /\ (Resumed(p) /\ op[p].name = "transitionByChild"
                       /\ req[p].m = "GET" /\ req'[p].m = "PATCH"
                       /\ op'[p].id \in Ids)
            => /\ req'[p].at = "row"
               /\ req'[p].id = op'[p].id
               /\ \A e \in req'[p].body : e[1] \in Fields
        /\ (Resumed(p) /\ op[p].name = "transitionByChild"
                       /\ req[p].m = "PATCH" /\ op[p].id \in Ids)
            => \A k \in Keys \ {op[p].id} : rows'[k] = rows[k]]_vars

\* C16: the write of a transition never brings a row back: a row create
\* has returned the id of and deleteById has removed since is still absent
\* after the PATCH of a transitionById or transitionByChild has landed, also
\* when the transition read the row before it was deleted; so the rows
\* under the ids create has returned are complete documents.
C16_NoRowFromTransition ==
    [][\A p \in Procs :
        (Resumed(p) /\ req[p].m = "PATCH"
                    /\ op[p].name \in {"transitionByChild", "transitionById"})
            => \A k \in created :
                /\ rows[k] = Null => rows'[k] = Null
                /\ rows'[k] # Null => Conforms(rows'[k])]_vars
====
